---- MODULE Spec2Model ----
(***************************************************************************)
(* Model of the GithubUpdater of src/src/lib.rs: the builder, the release  *)
(* resolution (fetch_last_release), the up-to-date decision                *)
(* (check_if_update_is_needed) and the download / verify / install /       *)
(* record pipeline (force_update, update_if_needed).                       *)
(*                                                                         *)
(* Strings are sequences of one-character strings, a pattern placeholder  *)
(* such as {app_version} is one element.  A file is an Option of its       *)
(* content; Option values are None == <<>> and Some(x) == <<x>>.           *)
(* Every step of force_update that changes the filesystem is an action of  *)
(* its own, so every state a crash can leave behind is a state of the      *)
(* model, and every filesystem or network call followed by `?` may fail.   *)
(*                                                                         *)
(* Scope: the setters are called before build() and once each; a build()   *)
(* that fails ends the configuration.  github_token only adds a request    *)
(* header and file_extension only changes the file name: both are left     *)
(* out, the artifact is "app" and the prefixed file "new_app".  The feed   *)
(* publishes between two invocations, one invocation runs at a time.       *)
(***************************************************************************)
EXTENDS Integers, Sequences, FiniteSets, TLC

\* ------------------------------------------------------------- bounds
\* Invocations of the public API (fetch_last_release, force_update,
\* update_if_needed) in one behaviour.
MaxCalls == 3
\* Releases published on the feed after the initial one.
MaxPublish == 1

\* ------------------------------------------------------------- Option<T>
None == <<>>
Some(x) == <<x>>
IsSome(o) == o # <<>>
Unwrap(o) == o[1]

\* ------------------------------------------------------------- strings
\* str::trim: strips leading and trailing whitespace.
RECURSIVE TrimStart(_)
TrimStart(s) ==
    IF s # <<>> /\ Head(s) = " " THEN TrimStart(Tail(s)) ELSE s

RECURSIVE TrimEnd(_)
TrimEnd(s) ==
    IF s # <<>> /\ s[Len(s)] = " " THEN TrimEnd(SubSeq(s, 1, Len(s) - 1)) ELSE s

Trim(s) == TrimEnd(TrimStart(s))

\* str::replace: every occurrence of the placeholder tok becomes val.
RECURSIVE Replace(_, _, _)
Replace(s, tok, val) ==
    IF s = <<>> THEN <<>>
    ELSE (IF Head(s) = tok THEN val ELSE <<Head(s)>>) \o Replace(Tail(s), tok, val)

\* str::contains: sub is a contiguous part of s.
Contains(s, sub) ==
    \E i \in 1..(Len(s) - Len(sub) + 1) : SubSeq(s, i, i + Len(sub) - 1) = sub

\* The prefixes of a sequence, the whole sequence excluded: what a write_all
\* that fails may have written.
ProperPrefixes(s) == { SubSeq(s, 1, n) : n \in 0..(Len(s) - 1) }

\* ------------------------------------------------------------- the release feed
\* What GET /repos/{owner}/{repo}/releases/latest can answer: a Release
\* {name, assets}, each Asset {url, browser_download_url}.
Catalogue ==
    << [ name   |-> <<"1">>,
         assets |-> << [ url |-> "api/1b",
                         browser_download_url |-> <<"/", "b", "-", "x", "-", "1">> ],
                       [ url |-> "api/1",
                         browser_download_url |-> <<"/", "a", "-", "x", "-", "1">> ] >> ],
       [ name   |-> <<"2", " ">>,
         assets |-> << [ url |-> "api/2",
                         browser_download_url |-> <<"/", "a", "-", "x", "-", "2">> ] >> ] >>

ReleaseIds == DOMAIN Catalogue

\* The bytes the server holds for an asset url.
AssetBody(url) ==
    CASE url = "api/1"  -> <<1, 1>>
      [] url = "api/1b" -> <<1, 7>>
      [] url = "api/2"  -> <<2, 2>>

\* A body of the same length and another content (corruption in transit).
Tampered(body) == [body EXCEPT ![1] = 0]
\* A body cut short of the declared content-length.
Truncated(body) == SubSeq(body, 1, Len(body) - 1)

\* md5::Md5 followed by base64 STANDARD.encode: a digest of the content,
\* collision free on the contents of this model (bytes are below 16).
RECURSIVE Md5(_)
Md5(content) ==
    IF content = <<>> THEN 1
    ELSE Md5(SubSeq(content, 1, Len(content) - 1)) * 16 + content[Len(content)]

\* ------------------------------------------------------------- configuration values
AppName == <<"a">>
RustTarget == <<"x">>
Patterns ==
    { <<"{app_name}", "-", "{rust_target}", "-", "{app_version}">>,
      <<"{app_name}", "-">> }

\* generate_file_name and the paths derived from it.
PreviousFilePath == "app"
NewPrefixedPath == "new_app"
ArtifactPaths == {PreviousFilePath, NewPrefixedPath}

\* ------------------------------------------------------------- asset lists
\* The longest asset list of a release the resolution is tried on.
MaxAssets == 3

\* The file name of an asset: browser_download_url is
\* https://github.com/{owner}/{repo}/releases/download/{tag}/{name}, the name
\* is what follows its last "/".
AssetName(browser_download_url) ==
    LET slashes == { i \in 1..Len(browser_download_url) :
                       browser_download_url[i] = "/" }
        last == IF slashes = {} THEN 0
                ELSE CHOOSE i \in slashes : \A j \in slashes : j <= i
    IN  SubSeq(browser_download_url, last + 1, Len(browser_download_url))

\* The part of browser_download_url in front of the name, for a repository
\* named like the application.
ProbePath == <<"/", "a", "/">>
\* Asset names: a checksum file, the build of another application, of another
\* target, and the build the full pattern asks for.
ProbeNames ==
    << <<"c">>, <<"b", "-", "x", "-", "1">>, <<"a", "-", "y", "-", "1">>,
       <<"a", "-", "x", "-", "1">> >>
ProbeUrls == << "probe/1", "probe/2", "probe/3", "probe/4" >>

\* The n-th list of asset names, shortest first (bijective numeration).
RECURSIVE ProbeList(_)
ProbeList(n) ==
    IF n = 0 THEN <<>>
    ELSE <<ProbeNames[((n - 1) % Len(ProbeNames)) + 1]>>
           \o ProbeList((n - 1) \div Len(ProbeNames))

\* How many lists of at most len names there are.
RECURSIVE ProbeCount(_)
ProbeCount(len) ==
    IF len = 0 THEN 1 ELSE Len(ProbeNames) ^ len + ProbeCount(len - 1)

\* The releases of the feed that list these assets, after those of Catalogue.
ProbeIds == { Len(Catalogue) + 1 + n : n \in 0..(ProbeCount(MaxAssets) - 1) }

ProbeRelease(id) ==
    LET names == ProbeList(id - Len(Catalogue) - 1) IN
    [ name   |-> <<"1">>,
      assets |-> [ i \in 1..Len(names) |->
                     [ url |-> ProbeUrls[i],
                       browser_download_url |-> ProbePath \o names[i] ] ] ]

\* The Release the feed answers with when release id is the latest.
FeedRelease(id) == IF id \in ReleaseIds THEN Catalogue[id] ELSE ProbeRelease(id)

\* Patterns the resolution is tried with.
ProbePatterns == Patterns \cup { <<"{app_name}">> }

\* ------------------------------------------------------------- state
VARIABLES
    \* GithubUpdater fields set by the builder
    reqwest_client, pattern, app_name, rust_target, repository_infos,
    download_path, erase_previous_file, built,
    \* GithubUpdater fields written by the operations
    release_url, app_version, need_refresh, forced_update,
    \* the download directory: whether it exists, the artifact files in it
    \* (path -> Option of bytes) and binary-version-{app_name}.txt
    download_dir, files, version_file,
    \* the release feed: the release that is latest, and how many were published
    latest, published,
    \* the invocation in progress: its position, the public function called,
    \* the locals of force_update, the value returned, the calls made so far
    pc, entry, local, result, calls,
    \* observation of the invocation in progress (no effect on the program)
    obs

cfgVars == <<reqwest_client, pattern, app_name, rust_target, repository_infos,
             download_path, erase_previous_file, built>>
updVars == <<release_url, app_version, need_refresh, forced_update>>
fsVars == <<download_dir, files, version_file>>
feedVars == <<latest, published>>
procVars == <<pc, entry, local, result, calls>>
vars == <<cfgVars, updVars, fsVars, feedVars, procVars, obs>>

\* ------------------------------------------------------------- results
NoInfos ==
    [ previous_version |-> None, new_version |-> <<>>,
      has_been_updated |-> FALSE, forced_update |-> FALSE ]
NoResult == [ kind |-> "none", err |-> "", infos |-> NoInfos ]
Ok(infos) == [ kind |-> "ok", err |-> "", infos |-> infos ]
Err(e) == [ kind |-> "err", err |-> e, infos |-> NoInfos ]

\* The locals of force_update before it has computed them.
NoLocal ==
    [ new_file |-> PreviousFilePath, previous_version |-> None, new_version |-> <<>>,
      github_md5 |-> None, content_length |-> 0, body |-> <<>> ]

\* What is observed of an invocation: the files and the version file as they
\* were when it was called, the release-metadata reads it made, the asset
\* requests it made and the url of the last one, whether its download passed verification, and whether the
\* error of check_if_update_is_needed was discarded.  settled outlives the
\* invocation: the last install succeeded, was of the release that is latest,
\* and neither a publication nor a call other than update_if_needed followed.
\* plain adds that the server sent no content-md5 for that install.
\* replace_failed: the invocation ended in a failed remove_file of the previous
\* file or a failed rename.
Observe ==
    [ files0 |-> files, version0 |-> version_file, fetches |-> 0,
      downloads |-> 0, replace_failed |-> FALSE,
               url |-> None, verified |-> FALSE, rejected |-> FALSE, check_failed |-> FALSE,
      settled |-> obs.settled, settled0 |-> obs.settled,
      plain |-> obs.plain, plain0 |-> obs.plain ]

NoFiles == [ p \in ArtifactPaths |-> None ]

\* ------------------------------------------------------------- Init
\* GithubUpdater::builder(), in front of a download directory that is absent,
\* empty, or holds the artifact and version file a previous run installed for
\* some release (the asset the patterns select, the last one listed).
Init ==
    /\ reqwest_client = FALSE /\ pattern = None /\ app_name = None
    /\ rust_target = None /\ repository_infos = FALSE /\ download_path = FALSE
    /\ erase_previous_file = TRUE /\ built = FALSE
    /\ release_url = None /\ app_version = None
    /\ need_refresh = TRUE /\ forced_update = TRUE
    /\ latest \in ReleaseIds /\ published = 0
    /\ \/ download_dir = FALSE /\ files = NoFiles /\ version_file = None
       \/ download_dir = TRUE /\ files = NoFiles /\ version_file = None
       \/ \E r \in ReleaseIds :
             /\ download_dir = TRUE
             /\ files = [NoFiles EXCEPT ![PreviousFilePath] =
                            Some(AssetBody(Catalogue[r].assets[Len(Catalogue[r].assets)].url))]
             /\ version_file = Some(Catalogue[r].name)
    /\ pc = "idle" /\ entry = "" /\ local = NoLocal /\ result = NoResult /\ calls = 0
    /\ obs = [ files0 |-> files, version0 |-> version_file, fetches |-> 0,
               downloads |-> 0, replace_failed |-> FALSE,
               url |-> None, verified |-> FALSE, rejected |-> FALSE,
               check_failed |-> FALSE, settled |-> FALSE, settled0 |-> FALSE,
               plain |-> FALSE, plain0 |-> FALSE ]

\* ------------------------------------------------------------- the builder
Configuring == pc = "idle" /\ ~built /\ result = NoResult

with_reqwest_client ==
    /\ Configuring /\ ~reqwest_client
    /\ reqwest_client' = TRUE
    /\ UNCHANGED <<pattern, app_name, rust_target, repository_infos, download_path,
                   erase_previous_file, built, updVars, fsVars, feedVars, procVars, obs>>

with_release_file_name_pattern ==
    /\ Configuring /\ pattern = None
    /\ \E p \in Patterns : pattern' = Some(p)
    /\ UNCHANGED <<reqwest_client, app_name, rust_target, repository_infos, download_path,
                   erase_previous_file, built, updVars, fsVars, feedVars, procVars, obs>>

with_app_name ==
    /\ Configuring /\ app_name = None
    /\ app_name' = Some(AppName)
    /\ UNCHANGED <<reqwest_client, pattern, rust_target, repository_infos, download_path,
                   erase_previous_file, built, updVars, fsVars, feedVars, procVars, obs>>

with_rust_target ==
    /\ Configuring /\ rust_target = None
    /\ rust_target' = Some(RustTarget)
    /\ UNCHANGED <<reqwest_client, pattern, app_name, repository_infos, download_path,
                   erase_previous_file, built, updVars, fsVars, feedVars, procVars, obs>>

with_repository_infos ==
    /\ Configuring /\ ~repository_infos
    /\ repository_infos' = TRUE
    /\ UNCHANGED <<reqwest_client, pattern, app_name, rust_target, download_path,
                   erase_previous_file, built, updVars, fsVars, feedVars, procVars, obs>>

with_download_path ==
    /\ Configuring /\ ~download_path
    /\ download_path' = TRUE
    /\ UNCHANGED <<reqwest_client, pattern, app_name, rust_target, repository_infos,
                   erase_previous_file, built, updVars, fsVars, feedVars, procVars, obs>>

without_erase_previous_file ==
    /\ Configuring /\ erase_previous_file
    /\ erase_previous_file' = FALSE
    /\ UNCHANGED <<reqwest_client, pattern, app_name, rust_target, repository_infos,
                   download_path, built, updVars, fsVars, feedVars, procVars, obs>>

\* build() without its test of download_path.
MissingFieldNoPath ==
    IF ~reqwest_client THEN "reqwest_client"
    ELSE IF app_name = None THEN "app_name"
    ELSE IF pattern = None THEN "pattern"
    ELSE IF Contains(Unwrap(pattern), <<"{rust_target}">>) /\ rust_target = None
         THEN "rust_target"
    ELSE IF ~repository_infos THEN "repository_infos"
    ELSE ""

\* The first required field build() finds missing, "" when none is.
MissingField ==
    IF ~reqwest_client THEN "reqwest_client"
    ELSE IF app_name = None THEN "app_name"
    ELSE IF pattern = None THEN "pattern"
    ELSE IF Contains(Unwrap(pattern), <<"{rust_target}">>) /\ rust_target = None
         THEN "rust_target"
    ELSE IF ~repository_infos THEN "repository_infos"
    ELSE IF ~download_path THEN "download_path"
    ELSE ""

build ==
    /\ Configuring
    /\ IF MissingField = ""
       THEN built' = TRUE /\ result' = result
       ELSE built' = built /\ result' = Err("BuilderMissingField")
    /\ UNCHANGED <<reqwest_client, pattern, app_name, rust_target, repository_infos,
                   download_path, erase_previous_file, updVars, fsVars, feedVars,
                   pc, entry, local, calls, obs>>

\* ------------------------------------------------------------- the feed changes
\* A new release becomes the latest one (between two invocations).
Publish ==
    /\ pc = "idle" /\ published < MaxPublish
    /\ \E r \in ReleaseIds \ {latest} : latest' = r
    /\ published' = published + 1
    /\ obs' = [obs EXCEPT !.settled = FALSE, !.settled0 = FALSE,
                          !.plain = FALSE, !.plain0 = FALSE]
    /\ UNCHANGED <<cfgVars, updVars, fsVars, procVars>>

\* ------------------------------------------------------------- fetch_last_release
\* The pattern with its placeholders substituted, lines 452-462.
MatchString(release) ==
    LET p1 == Replace(Unwrap(pattern), "{app_version}", release.name)
        p2 == IF IsSome(app_name) THEN Replace(p1, "{app_name}", Unwrap(app_name)) ELSE p1
    IN  IF IsSome(rust_target) THEN Replace(p2, "{rust_target}", Unwrap(rust_target)) ELSE p2

\* Iterator::find over indices: the least one, 0 when there is none.
FirstIndex(S) == IF S = {} THEN 0 ELSE CHOOSE i \in S : \A j \in S : i <= j

\* Lines 465-472: the first browser_download_url containing the match string.
MatchingAsset(release) ==
    FirstIndex({ i \in DOMAIN release.assets :
                   Contains(release.assets[i].browser_download_url, MatchString(release)) })

\* Lines 473-482: the url of the first asset with that browser_download_url.
ApiUrlIndex(release, matching_value) ==
    FirstIndex({ i \in DOMAIN release.assets :
                   release.assets[i].browser_download_url = matching_value })

\* The outcomes of send_request followed by json(): the answer, a transport or
\* decoding failure, a status that is no success.
MetadataOutcomes == {"ok", "ReqwestError", "FetchError"}

\* fetch_last_release past its `built` test, lines 433-486: the error returned
\* ("" for Ok) and the values app_version and release_url are left with.
fetch_last_release(net) ==
    IF net # "ok"
    THEN [ err |-> net, app_version |-> app_version, release_url |-> release_url ]
    ELSE LET release == FeedRelease(latest)
             m == MatchingAsset(release)
         IN  IF m = 0
             THEN [ err |-> "FetchError", app_version |-> Some(release.name),
                    release_url |-> release_url ]
             ELSE [ err |-> "", app_version |-> Some(release.name),
                    release_url |->
                      Some(release.assets[ApiUrlIndex(release,
                             release.assets[m].browser_download_url)].url) ]

\* The asset url a resolution of the latest release selects, None when no
\* asset matches.
LatestAssetUrl ==
    LET f == fetch_last_release("ok") IN
    IF f.err = "" THEN f.release_url ELSE None

\* A public function is called: lines 429-431, 551-553, 678-680.
Call(name, first) ==
    /\ pc = "idle" /\ calls < MaxCalls
    /\ calls' = calls + 1
    /\ entry' = name
    /\ local' = NoLocal
    /\ obs' = [Observe EXCEPT !.settled = @ /\ name = "update_if_needed",
                              !.settled0 = @ /\ name = "update_if_needed",
                              !.plain = @ /\ name = "update_if_needed",
                              !.plain0 = @ /\ name = "update_if_needed"]
    /\ IF built
       THEN pc' = first /\ result' = NoResult
       ELSE pc' = "returned" /\ result' = Err("BuilderNotInitialized")
    /\ UNCHANGED <<cfgVars, updVars, fsVars, feedVars>>

call_fetch_last_release == Call("fetch_last_release", "flr_fetch")
call_force_update == Call("force_update", "fu_fetch")
call_update_if_needed == Call("update_if_needed", "uin_fetch")

\* The function returns err to its caller.
Return(r) == pc' = "returned" /\ result' = r

\* The caller has the result and may call again.
caller_continues ==
    /\ pc = "returned"
    /\ pc' = "idle" /\ entry' = "" /\ local' = NoLocal /\ result' = NoResult
    /\ obs' = Observe
    /\ UNCHANGED <<cfgVars, updVars, fsVars, feedVars, calls>>

\* fetch_last_release called by the user, lines 433-486.
flr_fetch ==
    /\ pc = "flr_fetch"
    /\ \E net \in MetadataOutcomes :
         LET f == fetch_last_release(net) IN
         /\ app_version' = f.app_version /\ release_url' = f.release_url
         /\ Return(IF f.err = "" THEN Ok(NoInfos) ELSE Err(f.err))
    /\ obs' = [obs EXCEPT !.fetches = @ + 1]
    /\ UNCHANGED <<cfgVars, need_refresh, forced_update, fsVars, feedVars,
                   entry, local, calls>>

\* ------------------------------------------------------------- force_update
\* force_update resolving the release whatever need_refresh says.
fu_fetch_always ==
    /\ pc = "fu_fetch"
    /\ \E net \in MetadataOutcomes :
         LET f == fetch_last_release(net) IN
         /\ app_version' = f.app_version /\ release_url' = f.release_url
         /\ obs' = [obs EXCEPT !.fetches = @ + 1]
         /\ IF f.err = ""
            THEN pc' = "fu_prepare" /\ result' = result
            ELSE Return(Err(f.err))
    /\ UNCHANGED <<cfgVars, need_refresh, forced_update, fsVars, feedVars,
                   entry, local, calls>>

\* Lines 555-557: the release is resolved when need_refresh is set.
fu_fetch ==
    /\ pc = "fu_fetch"
    /\ IF need_refresh
       THEN \E net \in MetadataOutcomes :
              LET f == fetch_last_release(net) IN
              /\ app_version' = f.app_version /\ release_url' = f.release_url
              /\ obs' = [obs EXCEPT !.fetches = @ + 1]
              /\ IF f.err = ""
                 THEN pc' = "fu_prepare" /\ result' = result
                 ELSE Return(Err(f.err))
       ELSE /\ pc' = "fu_prepare"
            /\ UNCHANGED <<app_version, release_url, obs, result>>
    /\ UNCHANGED <<cfgVars, need_refresh, forced_update, fsVars, feedVars,
                   entry, local, calls>>

\* get_current_version, lines 377-388: the error ("" for Ok) and the value.
get_current_version(read_ok) ==
    IF version_file # None
    THEN IF read_ok
         THEN [ err |-> "", value |-> Some(Unwrap(version_file)) ]
         ELSE [ err |-> "IoError", value |-> None ]
    ELSE [ err |-> "", value |-> None ]

\* The download written straight to the target path, whatever is there.
new_file_path_direct == PreviousFilePath

\* The download always staged at new_<file_name>, whatever is at the target.
new_file_path_staged == NewPrefixedPath

\* Lines 567-573: the path the download is written to.
new_file_path ==
    IF files[PreviousFilePath] # None THEN NewPrefixedPath ELSE PreviousFilePath

\* Lines 559-592: the locals, then create_dir_all and the removal of a file
\* left at new_file.
fu_prepare ==
    /\ pc = "fu_prepare"
    /\ \E read_ok, io_ok \in BOOLEAN :
         LET cv == get_current_version(read_ok)
             ready == [local EXCEPT !.new_file = new_file_path,
                                    !.previous_version = cv.value,
                                    !.new_version = Unwrap(app_version)]
         IN  IF release_url = None
             THEN Return(Err("FetchError")) /\ UNCHANGED <<download_dir, files, local>>
             ELSE IF cv.err # ""
             THEN Return(Err(cv.err)) /\ UNCHANGED <<download_dir, files, local>>
             ELSE IF app_version = None
             THEN /\ Return(Err("BuilderNotInitialized"))
                  /\ UNCHANGED <<download_dir, files, local>>
             ELSE IF ~io_ok /\ (~download_dir \/ files[new_file_path] # None)
             THEN Return(Err("IoError")) /\ UNCHANGED <<download_dir, files, local>>
             ELSE /\ download_dir' = TRUE
                  /\ files' = [files EXCEPT ![new_file_path] = None]
                  /\ local' = ready
                  /\ pc' = "fu_request" /\ result' = result
    /\ UNCHANGED <<cfgVars, updVars, version_file, feedVars, entry, calls, obs>>

\* The outcomes of the asset request and of reading its headers, lines 594-610.
DownloadOutcomes ==
    {"ok", "ReqwestError", "FetchError", "ToStrError", "NoContentLength", "ParseIntError"}

fu_request ==
    /\ pc = "fu_request"
    /\ \E out \in DownloadOutcomes, with_md5 \in BOOLEAN :
         LET served == AssetBody(Unwrap(release_url)) IN
         IF out = "ok"
         THEN /\ local' = [local EXCEPT
                             !.github_md5 = IF with_md5 THEN Some(Md5(served)) ELSE None,
                             !.content_length = Len(served)]
              /\ pc' = "fu_create" /\ result' = result
         ELSE /\ Return(Err(IF out = "NoContentLength" THEN "FetchError" ELSE out))
              /\ local' = local
    /\ obs' = [obs EXCEPT !.url = release_url, !.downloads = @ + 1]
    /\ UNCHANGED <<cfgVars, updVars, fsVars, feedVars, entry, calls>>

\* Line 612: File::create(&new_file) creates or truncates.
fu_create ==
    /\ pc = "fu_create"
    /\ \E io_ok \in BOOLEAN :
         IF io_ok
         THEN /\ files' = [files EXCEPT ![local.new_file] = Some(<<>>)]
              /\ pc' = "fu_write" /\ result' = result
         ELSE files' = files /\ Return(Err("IoError"))
    /\ UNCHANGED <<cfgVars, updVars, download_dir, version_file, feedVars,
                   entry, local, calls, obs>>

\* Lines 613-614: the body is received, then written.
fu_write ==
    /\ pc = "fu_write"
    /\ LET served == AssetBody(Unwrap(release_url)) IN
       \/ Return(Err("ReqwestError")) /\ UNCHANGED <<files, local>>
       \/ \E body \in {served, Tampered(served), Truncated(served)} :
            \/ /\ files' = [files EXCEPT ![local.new_file] = Some(body)]
               /\ local' = [local EXCEPT !.body = body]
               /\ pc' = "fu_verify" /\ result' = result
            \/ \E part \in ProperPrefixes(body) :
                 /\ files' = [files EXCEPT ![local.new_file] = Some(part)]
                 /\ local' = local
                 /\ Return(Err("IoError"))
    /\ UNCHANGED <<cfgVars, updVars, download_dir, version_file, feedVars,
                   entry, calls, obs>>

\* Line 629: the test that rejects the download.
corrupted(github_md5, file_md5, content_length, body_len) ==
    github_md5 # file_md5 \/ content_length # body_len

\* The previous file replaced whatever erase_previous_file says.
replaces_previous_always(new_file) ==
    PreviousFilePath # new_file

\* Line 639: whether the previous file is replaced by the new one.
replaces_previous(new_file) ==
    erase_previous_file /\ PreviousFilePath # new_file

\* Lines 617-637: the digest of the written file, the test, the removal of a
\* rejected download.
fu_verify ==
    /\ pc = "fu_verify"
    /\ \E read_ok, io_ok \in BOOLEAN :
         IF IsSome(local.github_md5) /\ ~read_ok
         THEN Return(Err("IoError")) /\ UNCHANGED <<files, obs>>
         ELSE LET file_md5 == IF IsSome(local.github_md5)
                              THEN Some(Md5(Unwrap(files[local.new_file])))
                              ELSE None
              IN  IF corrupted(local.github_md5, file_md5,
                               local.content_length, Len(local.body))
                  THEN /\ obs' = [obs EXCEPT !.rejected = TRUE]
                       /\ IF io_ok
                          THEN /\ files' = [files EXCEPT ![local.new_file] = None]
                               /\ Return(Err("FetchError"))
                          ELSE files' = files /\ Return(Err("IoError"))
                  ELSE /\ obs' = [obs EXCEPT !.verified = TRUE]
                       /\ files' = files /\ result' = result
                       /\ pc' = IF replaces_previous(local.new_file)
                                THEN "fu_remove_previous"
                                ELSE "fu_create_version"
    /\ UNCHANGED <<cfgVars, updVars, download_dir, version_file, feedVars,
                   entry, local, calls>>

\* Line 640: remove_file(&previous_file).
fu_remove_previous ==
    /\ pc = "fu_remove_previous"
    /\ \E io_ok \in BOOLEAN :
         IF io_ok
         THEN /\ files' = [files EXCEPT ![PreviousFilePath] = None]
              /\ pc' = "fu_rename" /\ result' = result /\ obs' = obs
         ELSE /\ files' = files /\ Return(Err("IoError"))
              /\ obs' = [obs EXCEPT !.replace_failed = TRUE]
    /\ UNCHANGED <<cfgVars, updVars, download_dir, version_file, feedVars,
                   entry, local, calls>>

\* A rename that deletes the new file when it fails.
fu_rename_discarding ==
    /\ pc = "fu_rename"
    /\ \E io_ok \in BOOLEAN :
         IF io_ok
         THEN /\ files' = [files EXCEPT ![PreviousFilePath] = files[local.new_file],
                                        ![local.new_file] = None]
              /\ pc' = "fu_create_version" /\ result' = result /\ obs' = obs
         ELSE /\ files' = [files EXCEPT ![local.new_file] = None]
              /\ Return(Err("IoError"))
              /\ obs' = [obs EXCEPT !.replace_failed = TRUE]
    /\ UNCHANGED <<cfgVars, updVars, download_dir, version_file, feedVars,
                   entry, local, calls>>

\* Line 641: rename(&new_file, &previous_file).
fu_rename ==
    /\ pc = "fu_rename"
    /\ \E io_ok \in BOOLEAN :
         IF io_ok
         THEN /\ files' = [files EXCEPT ![PreviousFilePath] = files[local.new_file],
                                        ![local.new_file] = None]
              /\ pc' = "fu_create_version" /\ result' = result /\ obs' = obs
         ELSE /\ files' = files /\ Return(Err("IoError"))
              /\ obs' = [obs EXCEPT !.replace_failed = TRUE]
    /\ UNCHANGED <<cfgVars, updVars, download_dir, version_file, feedVars,
                   entry, local, calls>>

\* Lines 645-646: File::create of the version file creates or truncates it.
fu_create_version ==
    /\ pc = "fu_create_version"
    /\ \E io_ok \in BOOLEAN :
         IF io_ok
         THEN /\ version_file' = Some(<<>>)
              /\ pc' = "fu_write_version" /\ result' = result
         ELSE version_file' = version_file /\ Return(Err("IoError"))
    /\ UNCHANGED <<cfgVars, updVars, download_dir, files, feedVars,
                   entry, local, calls, obs>>

\* Lines 647-657: the version is written, forced_update is read and set again,
\* the DownloadInfos are returned.
fu_write_version ==
    /\ pc = "fu_write_version"
    /\ \/ /\ version_file' = Some(local.new_version)
          /\ forced_update' = TRUE
          /\ Return(Ok([ previous_version |-> local.previous_version,
                         new_version |-> local.new_version,
                         has_been_updated |-> TRUE,
                         forced_update |-> forced_update ]))
          /\ obs' = [obs EXCEPT !.settled =
                       /\ local.new_version = Catalogue[latest].name
                       /\ obs.url = LatestAssetUrl,
                                 !.plain =
                       /\ local.new_version = Catalogue[latest].name
                       /\ obs.url = LatestAssetUrl
                       /\ local.github_md5 = None]
       \/ \E part \in ProperPrefixes(local.new_version) :
            /\ version_file' = Some(part)
            /\ forced_update' = forced_update
            /\ obs' = [obs EXCEPT !.settled = FALSE, !.plain = FALSE]
            /\ Return(Err("IoError"))
    /\ UNCHANGED <<cfgVars, release_url, app_version, need_refresh, download_dir,
                   files, feedVars, entry, local, calls>>

\* ------------------------------------------------------------- update_if_needed
\* Lines 682-683.
uin_fetch ==
    /\ pc = "uin_fetch"
    /\ \E net \in MetadataOutcomes :
         LET f == fetch_last_release(net) IN
         /\ app_version' = f.app_version /\ release_url' = f.release_url
         /\ IF f.err = ""
            THEN need_refresh' = FALSE /\ pc' = "uin_check" /\ result' = result
            ELSE need_refresh' = need_refresh /\ Return(Err(f.err))
    /\ obs' = [obs EXCEPT !.fetches = @ + 1]
    /\ UNCHANGED <<cfgVars, forced_update, fsVars, feedVars, entry, local, calls>>

\* An up-to-date decision that also compares the digest of the installed
\* artifact with the digest of the asset.
check_with_digest(read_ok) ==
    IF app_version = None
    THEN [ err |-> "BuilderNotInitialized", value |-> FALSE ]
    ELSE IF version_file = None \/ files[PreviousFilePath] = None
    THEN [ err |-> "", value |-> TRUE ]
    ELSE IF ~read_ok
    THEN [ err |-> "IoError", value |-> FALSE ]
    ELSE [ err |-> "",
           value |-> \/ Trim(Unwrap(version_file)) # Unwrap(app_version)
                     \/ Md5(Unwrap(files[PreviousFilePath]))
                          # Md5(AssetBody(Unwrap(release_url))) ]

\* check_if_update_is_needed, lines 505-531: the error ("" for Ok) and the value.
check_if_update_is_needed(read_ok) ==
    IF app_version = None
    THEN [ err |-> "BuilderNotInitialized", value |-> FALSE ]
    ELSE IF version_file = None \/ files[PreviousFilePath] = None
    THEN [ err |-> "", value |-> TRUE ]
    ELSE IF ~read_ok
    THEN [ err |-> "IoError", value |-> FALSE ]
    ELSE [ err |-> "", value |-> Trim(Unwrap(version_file)) # Unwrap(app_version) ]

\* Result::unwrap_or(false) at line 685.
unwrap_or_false(checked) == IF checked.err = "" THEN checked.value ELSE FALSE

\* Lines 685-706.
uin_check ==
    /\ pc = "uin_check"
    /\ \E check_ok, read_ok \in BOOLEAN :
         LET checked == check_if_update_is_needed(check_ok)
             cv == get_current_version(read_ok)
         IN  /\ obs' = [obs EXCEPT !.check_failed = (checked.err # "")]
             /\ IF unwrap_or_false(checked)
                THEN forced_update' = FALSE /\ pc' = "fu_fetch" /\ result' = result
                ELSE /\ forced_update' = forced_update
                     /\ IF cv.err # ""
                        THEN Return(Err(cv.err))
                        ELSE Return(Ok([ previous_version |-> cv.value,
                                         new_version |-> IF IsSome(cv.value)
                                                         THEN Unwrap(cv.value)
                                                         ELSE <<>>,
                                         has_been_updated |-> FALSE,
                                         forced_update |-> FALSE ]))
    /\ UNCHANGED <<cfgVars, release_url, app_version, need_refresh, fsVars, feedVars,
                   entry, local, calls>>

\* ------------------------------------------------------------- specification
Next ==
    \/ with_reqwest_client \/ with_release_file_name_pattern \/ with_app_name
    \/ with_rust_target \/ with_repository_infos \/ with_download_path
    \/ without_erase_previous_file \/ build
    \/ Publish
    \/ call_fetch_last_release \/ call_force_update \/ call_update_if_needed
    \/ caller_continues
    \/ flr_fetch
    \/ fu_fetch \/ fu_prepare \/ fu_request \/ fu_create \/ fu_write \/ fu_verify
    \/ fu_remove_previous \/ fu_rename \/ fu_create_version \/ fu_write_version
    \/ uin_fetch \/ uin_check

Spec == Init /\ [][Next]_vars

\* ------------------------------------------------------------- the resolution alone
\* A built updater in front of a feed whose latest release lists any of the
\* asset lists above, on which fetch_last_release is called.
InitResolve ==
    /\ reqwest_client = TRUE /\ app_name = Some(AppName)
    /\ rust_target = Some(RustTarget) /\ repository_infos = TRUE
    /\ download_path = TRUE /\ erase_previous_file = TRUE /\ built = TRUE
    /\ pattern \in { Some(p) : p \in ProbePatterns }
    /\ release_url = None /\ app_version = None
    /\ need_refresh = TRUE /\ forced_update = TRUE
    /\ latest \in ProbeIds /\ published = 0
    /\ download_dir = FALSE /\ files = NoFiles /\ version_file = None
    /\ pc = "idle" /\ entry = "" /\ local = NoLocal /\ result = NoResult /\ calls = 0
    /\ obs = [ files0 |-> files, version0 |-> version_file, fetches |-> 0,
               downloads |-> 0, replace_failed |-> FALSE,
               url |-> None, verified |-> FALSE, rejected |-> FALSE,
               check_failed |-> FALSE, settled |-> FALSE, settled0 |-> FALSE,
               plain |-> FALSE, plain0 |-> FALSE ]

NextResolve == call_fetch_last_release \/ flr_fetch \/ caller_continues

SpecResolve == InitResolve /\ [][NextResolve]_vars

\* ------------------------------------------------------------- observations
\* The invocation in progress is force_update or update_if_needed.
Updating == entry \in {"force_update", "update_if_needed"}
Returned == pc = "returned"
ReturnedOk == pc = "returned" /\ result.kind = "ok"
ReturnedErr == pc = "returned" /\ result.kind = "err"
\* The values the invocation found at the target path and in the version file.
Target0 == obs.files0[PreviousFilePath]
Target == files[PreviousFilePath]
Staging == files[NewPrefixedPath]
\* A body of the declared length, as a verified download leaves it.
FullArtifacts ==
    { Some(AssetBody(a.url)) : a \in UNION { { r.assets[i] : i \in DOMAIN r.assets } :
                                             r \in { Catalogue[k] : k \in ReleaseIds } } }
    \cup
    { Some(Tampered(AssetBody(a.url))) :
        a \in UNION { { r.assets[i] : i \in DOMAIN r.assets } :
                      r \in { Catalogue[k] : k \in ReleaseIds } } }

\* ------------------------------------------------------------- C1
\* C1 as stated: an invocation that found a target artifact and a version file
\* and whose download failed verification returns an error, has deleted the
\* downloaded file, and leaves the target and the version file as they were.
C1_Original ==
    (Returned /\ Updating /\ obs.rejected /\ Target0 # None /\ obs.version0 # None)
    => /\ result.kind = "err"
       /\ files[local.new_file] = None
       /\ Target = Target0
       /\ version_file = obs.version0

\* C1 amended: such an invocation returns an error and leaves the target and
\* the version file as they were; the downloaded file is deleted when the error
\* is the corruption FetchError, and stays at new_<file_name> when its removal
\* failed, which is returned as an IoError.
C1_NoClobberOnCorruption ==
    (Returned /\ Updating /\ obs.rejected /\ Target0 # None /\ obs.version0 # None)
    => /\ result.kind = "err"
       /\ result.err \in {"FetchError", "IoError"}
       /\ local.new_file = NewPrefixedPath
       /\ Target = Target0
       /\ version_file = obs.version0
       /\ result.err = "FetchError" => Staging = None
       /\ result.err = "IoError" => Staging = Some(local.body)

C1_Witness ==
    /\ Returned /\ Updating /\ obs.rejected
    /\ Target0 # None /\ obs.version0 # None
    /\ result.err = "FetchError" /\ Staging = None
    /\ obs.files0[NewPrefixedPath] = None

\* ------------------------------------------------------------- C2
\* C2 as stated: in every state of an invocation that found a fully written
\* artifact at the target path, the target path holds that artifact or the new
\* fully written one.
C2_CrashAtomicity ==
    (Updating /\ pc # "idle" /\ Target0 \in FullArtifacts)
    => \/ Target = Target0
       \/ obs.verified /\ Target = Some(local.body)

\* ------------------------------------------------------------- C3
\* C3 as stated: after an invocation that returns an error the target path
\* holds what it held before: the old artifact, or no file.
C3_ErrorLeavesTarget ==
    (ReturnedErr /\ Updating) => Target = Target0

\* ------------------------------------------------------------- C4
\* The install step of the invocation has completed: the download passed
\* verification and, where the previous file is replaced, sits at the target.
InstallCompleted ==
    /\ obs.verified
    /\ pc \in {"fu_create_version", "fu_write_version", "returned"}
    /\ replaces_previous(local.new_file)
         => Target = Some(local.body) /\ Staging = None

\* C4 as stated: the version file changes only once the download is verified
\* and installed, and after an invocation that fails it holds the value it had.
C4_VersionRecordOrdering ==
    Updating =>
      /\ version_file # obs.version0 => InstallCompleted
      /\ ReturnedErr => version_file = obs.version0

\* ------------------------------------------------------------- C5
\* C5 as stated: a force_update called by the user resolves the latest release
\* before it downloads, requests the asset of that release and records its
\* version.
C5_ForceUpdateResolvesLatest ==
    /\ (entry = "force_update" /\ IsSome(obs.url))
         => obs.fetches = 1 /\ obs.url = LatestAssetUrl
    /\ (entry = "force_update" /\ ReturnedOk)
         => /\ result.infos.new_version = Catalogue[latest].name
            /\ version_file = Some(Catalogue[latest].name)

\* ------------------------------------------------------------- C6
\* C6 as stated: a successful force_update called by the user reports
\* forced_update = true, a successful update_if_needed that downloaded reports
\* forced_update = false and has_been_updated = true.
C6_ForcedFlag ==
    (ReturnedOk /\ IsSome(obs.url))
    => /\ result.infos.has_been_updated
       /\ entry = "force_update" => result.infos.forced_update
       /\ entry = "update_if_needed" => ~result.infos.forced_update

\* ------------------------------------------------------------- C7
\* C7 as stated: an update_if_needed that follows a successful install of the
\* latest release, with no release published since, writes nothing to the
\* download directory and, when it returns a result, reports
\* has_been_updated = false.
C7_Idempotence ==
    (entry = "update_if_needed" /\ obs.settled0)
    => /\ files = obs.files0 /\ version_file = obs.version0
       /\ ReturnedOk => ~result.infos.has_been_updated

\* ------------------------------------------------------------- C8
ForceUpdateSteps ==
    { "fu_fetch", "fu_prepare", "fu_request", "fu_create", "fu_write", "fu_verify",
      "fu_remove_previous", "fu_rename", "fu_create_version", "fu_write_version" }
UpToDate ==
    entry = "update_if_needed" /\ ReturnedOk /\ ~result.infos.has_been_updated

C9_CheckFailureIsReturned ==
    /\ (entry = "update_if_needed" /\ Returned /\ obs.check_failed)
         => result.kind = "err"
    /\ UpToDate
         => Target # None /\ version_file = Some(Catalogue[latest].name)

\* ------------------------------------------------------------- C10
KeptPrevious ==
    /\ ReturnedOk /\ Updating /\ result.infos.has_been_updated
    /\ ~erase_previous_file /\ Target0 # None

\* C10 as stated: with erase_previous_file disabled and a previous artifact, a
\* successful install leaves the new artifact at the target path, the previous
\* one under another name, and the version file records the version of the
\* artifact at the target path.
C10_Original ==
    KeptPrevious
    => /\ Target = Some(local.body)
       /\ Staging = Target0
       /\ version_file = Some(local.new_version)

\* C10 amended: with erase_previous_file disabled and a previous artifact, a
\* successful install leaves the previous artifact at the target path and the
\* new artifact at new_<file_name>; the version file records the version of
\* the new artifact, which is not the one at the target path.
C10_NewArtifactKeptAside ==
    KeptPrevious
    => /\ Target = Target0
       /\ local.new_file = NewPrefixedPath
       /\ Staging = Some(local.body)
       /\ version_file = Some(local.new_version)

C10_Witness ==
    /\ KeptPrevious
    /\ Staging = Some(AssetBody(Unwrap(release_url)))
    /\ Target # Staging
    /\ version_file = Some(Catalogue[latest].name)
    /\ obs.version0 # version_file

\* ------------------------------------------------------------- C11
\* C11: with erase_previous_file disabled and a previous artifact at the target
\* path, no state of the invocation changes the file at the target path, and a
\* successful install has saved the verified download as new_<file_name> and
\* overwritten the version file with the new version, the one it reports.
C11_KeepsOriginalWritesVersion ==
    (Updating /\ pc # "idle" /\ ~erase_previous_file /\ Target0 # None)
    => /\ Target = Target0
       /\ (ReturnedOk /\ result.infos.has_been_updated)
            => /\ obs.verified
               /\ Staging = Some(local.body)
               /\ version_file = Some(result.infos.new_version)
               /\ result.infos.new_version = Unwrap(app_version)

C11_Witness ==
    /\ entry = "force_update" /\ ReturnedOk
    /\ ~erase_previous_file /\ Target0 # None
    /\ Target = Target0
    /\ Staging \in FullArtifacts /\ Staging # Target
    /\ obs.version0 # None /\ version_file # obs.version0

\* ------------------------------------------------------------- C12
\* The invocation found neither a target artifact nor a version file.
FreshInstall ==
    Updating /\ pc # "idle" /\ Target0 = None /\ obs.version0 = None

ReleaseOf(url) ==
    CHOOSE k \in ReleaseIds :
        \E i \in DOMAIN Catalogue[k].assets : Catalogue[k].assets[i].url = url

\* C13 as stated: in every successful result that reports an update,
\* previous_version is the content the version file had when the invocation
\* was called (absent when there was none) and new_version is the version of
\* the release whose asset the invocation downloaded.
C13_ReportedVersions ==
    (ReturnedOk /\ Updating /\ result.infos.has_been_updated)
    => /\ result.infos.previous_version = obs.version0
       /\ obs.url # None
       /\ result.infos.new_version = Catalogue[ReleaseOf(Unwrap(obs.url))].name

\* ------------------------------------------------------------- C14
\* C14: the updater is built only with the HTTP client, the app name, the
\* pattern, the repository and the download path supplied, and the Rust target
\* when the pattern names it; a build() that reports a missing field leaves it
\* unbuilt.  While it is unbuilt, every call of fetch_last_release,
\* force_update or update_if_needed returns BuilderNotInitialized at once, no
\* release metadata is read, no asset is requested, nothing is resolved, and
\* no step changes the download directory, its files or the version file.
C14_NothingBeforeBuild ==
    /\ [](/\ built
               => /\ reqwest_client /\ app_name # None /\ pattern # None
                  /\ repository_infos /\ download_path
                  /\ Contains(Unwrap(pattern), <<"{rust_target}">>)
                       => rust_target # None
          /\ result.err = "BuilderMissingField" => ~built /\ pc = "idle"
          /\ ~built
               => /\ pc \in {"idle", "returned"}
                  /\ pc = "returned" => result = Err("BuilderNotInitialized")
                  /\ obs.fetches = 0 /\ obs.url = None
                  /\ app_version = None /\ release_url = None
                  /\ files = obs.files0 /\ version_file = obs.version0)
    /\ [][~built => /\ UNCHANGED fsVars
                    /\ obs'.fetches = 0 /\ obs'.url = None]_vars

C14_Witness ==
    /\ ~built /\ MissingField = "rust_target"
    /\ entry = "force_update" /\ Returned
    /\ result = Err("BuilderNotInitialized")
    /\ calls = 2

\* ------------------------------------------------------------- C15
\* The assets of the latest release whose name contains the substituted pattern.
NamedLike(release) ==
    { i \in DOMAIN release.assets :
        Contains(AssetName(release.assets[i].browser_download_url),
                 MatchString(release)) }

\* C15 as stated: a first fetch_last_release that succeeds has selected the
\* first asset, in feed order, whose name contains the substituted pattern;
\* when no asset name contains it the call fails with FetchError and no asset
\* is selected.
C15_FirstNameMatch ==
    (built /\ entry = "fetch_last_release" /\ Returned /\ calls = 1)
    => LET release == FeedRelease(latest) IN
       /\ result.kind = "ok"
            => /\ NamedLike(release) # {}
               /\ release_url
                    = Some(release.assets[FirstIndex(NamedLike(release))].url)
       /\ NamedLike(release) = {}
            => /\ result.kind = "err"
               /\ result.err \in MetadataOutcomes
               /\ release_url = None

\* ------------------------------------------------------------- C16
\* C16 as stated: a download that reached verification is rejected exactly
\* when the number of bytes received differs from content-length or the server
\* sent a digest and the digest of the written file differs from it, so that
\* without a digest a body of the declared length is accepted whatever its
\* content; and an update_if_needed that follows such an install of the latest
\* release, with no release published since, answers "up to date" without
\* requesting the asset.
C16_VerificationPolicy ==
    /\ (Updating /\ (obs.rejected \/ obs.verified))
         => /\ obs.rejected
                <=> \/ Len(local.body) # local.content_length
                    \/ /\ local.github_md5 # None
                       /\ Unwrap(local.github_md5) # Md5(local.body)
            /\ obs.rejected => ReturnedErr
            /\ obs.verified => ~obs.rejected
    /\ (entry = "update_if_needed" /\ obs.settled0 /\ obs.plain0 /\ ReturnedOk)
         => ~result.infos.has_been_updated /\ obs.url = None

\* ------------------------------------------------------------- C17
\* C17: a step in which remove_file of the previous artifact or rename of the
\* new file onto the target path fails returns an IoError at once: the step
\* is not tried again, it changes no file, the version file is as the
\* invocation found it, and the verified download is still at new_<file_name>.
C17_ReplaceFailureStops ==
    [][(pc \in {"fu_remove_previous", "fu_rename"} /\ pc' = "returned")
         => /\ result' = Err("IoError")
            /\ files' = files /\ download_dir' = download_dir
            /\ version_file' = obs.version0
            /\ files'[NewPrefixedPath] = Some(local.body)
            /\ obs.verified]_vars

C17_Witness ==
    /\ Updating /\ Returned /\ result = Err("IoError")
    /\ obs.verified /\ erase_previous_file
    /\ Target0 # None /\ Target = None
    /\ Staging = Some(local.body)
    /\ obs.version0 # None /\ version_file = obs.version0

\* ------------------------------------------------------------- C18
\* The version file holds what line 647 of a successful install wrote: the
\* name of a release.
WrittenByInstall(version) ==
    version \in { Some(Catalogue[k].name) : k \in ReleaseIds }

\* C18 as stated: when the version file found by an invocation was written by
\* a successful install, the previous_version of a successful result is that
\* version with surrounding whitespace trimmed, and update_if_needed answers
\* "up to date" exactly when that trimmed version is the version of the
\* latest release (the target artifact being there and the check not failing).
C18_VersionRoundTrip ==
    (Updating /\ ReturnedOk /\ WrittenByInstall(obs.version0))
    => /\ result.infos.previous_version = Some(Trim(Unwrap(obs.version0)))
       /\ (entry = "update_if_needed" /\ Target0 # None /\ ~obs.check_failed)
            => (~result.infos.has_been_updated
                  <=> Trim(Unwrap(obs.version0)) = Unwrap(app_version))

\* ------------------------------------------------------------- C19
\* C19: an update_if_needed of a built updater has read the release metadata
\* exactly once in every state past its first step, whether it answers "up to
\* date" or goes on to download, and not at all before; until that read
\* nothing is written to the download directory and no asset is requested;
\* and no invocation requests an asset more than once.
C19_OneMetadataRead ==
    /\ [](/\ obs.downloads <= 1
          /\ obs.downloads = 0 <=> obs.url = None
          /\ entry = "update_if_needed"
               => /\ pc = "uin_fetch" => obs.fetches = 0
                  /\ (pc # "uin_fetch" /\ built) => obs.fetches = 1
                  /\ obs.fetches = 0 => obs.downloads = 0)
    /\ [][(entry = "update_if_needed" /\ obs.fetches = 0)
            => UNCHANGED fsVars /\ obs'.downloads = 0]_vars

C19_Witness ==
    /\ entry = "update_if_needed" /\ ReturnedOk
    /\ result.infos.has_been_updated
    /\ obs.fetches = 1 /\ obs.downloads = 1
    /\ ~need_refresh

\* ------------------------------------------------------------- C20
\* C20 as stated: whenever both are set, app_version and release_url are the
\* name and an asset url of one release; and the version a successful install
\* has written to the version file is the version of the release whose asset
\* it requested.
C20_VersionAssetConsistency ==
    /\ (app_version # None /\ release_url # None)
         => Unwrap(app_version) = Catalogue[ReleaseOf(Unwrap(release_url))].name
    /\ (Updating /\ ReturnedOk /\ result.infos.has_been_updated)
         => version_file = Some(Catalogue[ReleaseOf(Unwrap(obs.url))].name)

\* ------------------------------------------------------------- C21
\* The files a verified download of an asset of the release named version can
\* leave: the served body, or one of the same length accepted without digest.
ArtifactsOf(version) ==
    UNION { UNION { { Some(AssetBody(Catalogue[k].assets[i].url)),
                      Some(Tampered(AssetBody(Catalogue[k].assets[i].url))) } :
                    i \in DOMAIN Catalogue[k].assets } :
            k \in { r \in ReleaseIds : Catalogue[r].name = version } }

\* C21 as stated, the place of the artifact left open: between invocations,
\* when the version file holds a version written by an install, a fully
\* written artifact of that version is in the download directory, at the
\* target path or at new_<file_name>.
C21_RecordedArtifactExists ==
    (pc = "idle" /\ WrittenByInstall(version_file))
    => \E p \in ArtifactPaths : files[p] \in ArtifactsOf(Unwrap(version_file))

\* ------------------------------------------------------------- C22
\* C22 as stated, for an invocation that found no file at new_<file_name>:
\* with erase_previous_file enabled, once the invocation has returned, with
\* success or with an error that is neither a failed remove_file (of the
\* previous file or of a rejected download) nor a failed rename, no file is
\* at new_<file_name>.
C22_StagingIsTransient ==
    (/\ Updating /\ Returned /\ erase_previous_file
     /\ obs.files0[NewPrefixedPath] = None
     /\ ~obs.replace_failed
     /\ ~(obs.rejected /\ result.err = "IoError"))
    => Staging = None

\* ------------------------------------------------------------- C23
\* The invocation found no version file or no file at the target path.
MissingRecordOrTarget == obs.version0 = None \/ Target0 = None

\* C23 as stated: an update_if_needed that found the version file or the
\* target artifact missing never answers "up to date": when it succeeds it has
\* downloaded and installed; and an update_if_needed enters the download step
\* only when one of them was missing or the recorded version is not the
\* version of the latest release.
C23_DownloadTriggers ==
    entry = "update_if_needed"
    => /\ (MissingRecordOrTarget /\ ReturnedOk)
            => /\ result.infos.has_been_updated
               /\ obs.downloads = 1 /\ obs.verified
       /\ (pc \in ForceUpdateSteps \/ obs.downloads > 0)
            => \/ MissingRecordOrTarget
               \/ Unwrap(obs.version0) # Catalogue[latest].name

====
